---------------------------- MODULE Spec2Model ----------------------------
(***************************************************************************)
(* Model of the smog-telemetry ingestion pipeline (main_sql.py,            *)
(* locations.py) and of the consumer's wind bucketing (app.py).            *)
(*                                                                         *)
(* Number encodings (the program uses floats):                             *)
(*   latitude / longitude : 1e-4 degree   (33.6844 -> 336844)              *)
(*   wind direction       : 0.1 degree    (44.9    -> 449)                 *)
(*   wind speed, km/h     : 0.01 km/h     (18.0    -> 1800)                *)
(*   wind speed, m/s      : 0.1 m/s       (5.0     -> 50)                  *)
(*   timestamps           : whole seconds since midnight of day 0          *)
(* A Python None is the empty tuple, a value v is the 1-tuple <<v>>.       *)
(***************************************************************************)
EXTENDS Integers, Sequences, FiniteSets, TLC

VARIABLES
    clock,          \* wall clock read by datetime.now()
    smog_metrics,   \* permanent table: set of rows, unique on (timestamp, district)
    smog_staging,   \* staging table: sequence of rows (last committed replace)
    run,            \* per pipeline run: its program counter and locals
    fc,             \* one call of fetch_city_data: provider responses and the row
    li,             \* one call of calculate_local_impact: inputs and result
    wc,             \* one call of add_wind_cardinals: the frame before / after
    ld              \* one call of load_data: the bounds and the frame returned

vars == <<clock, smog_metrics, smog_staging, run, fc, li, wc, ld>>

None == <<>>
Some(v) == <<v>>

-----------------------------------------------------------------------------
(* locations.py: the registry (a prefix of it, in insertion order).          *)

NumDistricts == 2

DistrictTable ==
    << [name |-> "Islamabad",  lat |-> 336844, lon |-> 730479],
       [name |-> "Rawalpindi", lat |-> 335651, lon |-> 730169],
       [name |-> "Attock",     lat |-> 337660, lon |-> 723609],
       [name |-> "Chakwal",    lat |-> 329328, lon |-> 728548],
       [name |-> "Jhelum",     lat |-> 329405, lon |-> 737276] >>

DISTRICTS == SubSeq(DistrictTable, 1, NumDistricts)

-----------------------------------------------------------------------------
(* Data frames of fire detections.  pd.DataFrame() (the failure value of     *)
(* get_provincial_fires) has no columns; a parsed feed has them.             *)

EmptyFrame == [columns |-> FALSE, rows |-> <<>>]
Frame(rs) == [columns |-> TRUE, rows |-> rs]
IsEmpty(df) == df.rows = <<>>

RECURSIVE SumFrp(_)
SumFrp(rows) ==
    IF rows = <<>> THEN 0 ELSE Head(rows).frp + SumFrp(Tail(rows))

-----------------------------------------------------------------------------
(* calculate_local_impact                                                    *)

HalfBox == 5000     \* 0.5 degree

InBoxStrict(f, city_lat, city_lon) ==
    /\ f.latitude  >  city_lat - HalfBox
    /\ f.latitude  <  city_lat + HalfBox
    /\ f.longitude >  city_lon - HalfBox
    /\ f.longitude <  city_lon + HalfBox

InBox(f, city_lat, city_lon) ==
    /\ f.latitude  >= city_lat - HalfBox
    /\ f.latitude  <= city_lat + HalfBox
    /\ f.longitude >= city_lon - HalfBox
    /\ f.longitude <= city_lon + HalfBox

\* the boolean-mask row selection all_fires_df[mask]
RECURSIVE LocalFires(_, _, _)
LocalFires(rows, city_lat, city_lon) ==
    IF rows = <<>> THEN <<>>
    ELSE IF InBox(Head(rows), city_lat, city_lon)
         THEN <<Head(rows)>> \o LocalFires(Tail(rows), city_lat, city_lon)
         ELSE LocalFires(Tail(rows), city_lat, city_lon)

\* summing the radiative power of the whole frame instead of the local rows
LocalImpactBodyAllFrp(city_lat, city_lon, all_fires_df) ==
    IF ~all_fires_df.columns
    THEN [raised |-> TRUE, count |-> 0, frp |-> 0]
    ELSE [raised |-> FALSE,
          count |-> Len(LocalFires(all_fires_df.rows, city_lat, city_lon)),
          frp |-> SumFrp(all_fires_df.rows)]

\* the body after the guard; indexing a frame without columns is a KeyError
LocalImpactBody(city_lat, city_lon, all_fires_df) ==
    IF ~all_fires_df.columns
    THEN [raised |-> TRUE, count |-> 0, frp |-> 0]
    ELSE LET local_fires == LocalFires(all_fires_df.rows, city_lat, city_lon)
         IN  [raised |-> FALSE, count |-> Len(local_fires),
              frp |-> SumFrp(local_fires)]

calculate_local_impact_unguarded(city_lat, city_lon, all_fires_df) ==
    LocalImpactBody(city_lat, city_lon, all_fires_df)

calculate_local_impact(city_lat, city_lon, all_fires_df) ==
    IF IsEmpty(all_fires_df)
    THEN [raised |-> FALSE, count |-> 0, frp |-> 0]
    ELSE LocalImpactBody(city_lat, city_lon, all_fires_df)

-----------------------------------------------------------------------------
(* Provider responses.  A JSON field is missing, null or a number.  A        *)
(* response is an exception of requests.get (timeout, connection error) or   *)
(* a status with a body; body.json is FALSE when the body does not parse or  *)
(* lacks the enclosing object the code indexes.                              *)

JMissing == [k |-> "missing", v |-> 0]
JNull    == [k |-> "null",    v |-> 0]
JNum(n)  == [k |-> "num",     v |-> n]
JsonVal(f) == IF f.k = "num" THEN Some(f.v) ELSE None

\* two assignments in a row would keep pm2_5 when d['pm10'] raises
FetchSmogSequential(resp) ==
    IF resp.exc THEN <<None, None>>
    ELSE IF resp.status # 200 THEN <<None, None>>
    ELSE IF ~resp.body.json THEN <<None, None>>
    ELSE IF resp.body.pm2_5.k = "missing" THEN <<None, None>>
    ELSE IF resp.body.pm10.k = "missing"
         THEN <<JsonVal(resp.body.pm2_5), None>>
    ELSE <<JsonVal(resp.body.pm2_5), JsonVal(resp.body.pm10)>>

\* B. resp.json()['list'][0]['components'], then the pair d['pm2_5'], d['pm10']
FetchSmog(resp) ==
    IF resp.exc THEN <<None, None>>
    ELSE IF resp.status # 200 THEN <<None, None>>
    ELSE IF ~resp.body.json THEN <<None, None>>
    ELSE IF resp.body.pm2_5.k = "missing" \/ resp.body.pm10.k = "missing"
         THEN <<None, None>>
    ELSE <<JsonVal(resp.body.pm2_5), JsonVal(resp.body.pm10)>>

\* Plan A: the two assignments run in order inside one try block
FetchOpenMeteo(resp) ==
    IF resp.exc THEN <<None, None>>
    ELSE IF resp.status # 200 THEN <<None, None>>
    ELSE IF ~resp.body.json THEN <<None, None>>
    ELSE IF ~resp.body.current THEN <<None, None>>
    ELSE IF resp.body.speed.k = "missing" THEN <<None, None>>
    ELSE IF resp.body.dir.k = "missing" THEN <<JsonVal(resp.body.speed), None>>
    ELSE <<JsonVal(resp.body.speed), JsonVal(resp.body.dir)>>

MsToKmhIdentity(s) == s
\* speed * 3.6, from 0.1 m/s to 0.01 km/h
MsToKmh(s) == s * 36

\* Plan B, entered only when wind_spd is None; w is <<wind_spd, wind_dir>>
FetchOwmWind(w, resp) ==
    IF resp.exc THEN w
    ELSE IF resp.status # 200 THEN w
    ELSE IF ~resp.body.json THEN w
    ELSE IF resp.body.speed.k # "num" THEN w
    ELSE IF resp.body.deg.k = "missing"
         THEN <<Some(MsToKmh(resp.body.speed.v)), w[2]>>
    ELSE <<Some(MsToKmh(resp.body.speed.v)), JsonVal(resp.body.deg)>>

NeedsBackupEitherNull(w) == w[1] = None \/ w[2] = None

\* if wind_spd is None
NeedsBackup(w) == w[1] = None

SmogRequestsWithRetry(resp) ==
    IF resp.exc \/ resp.status # 200 THEN 2 ELSE 1

\* requests.get(ow_url, timeout=10) is called once (line 62)
SmogRequests(resp) == 1

BackupRequestsWithRetry(resp) ==
    IF resp.exc \/ resp.status # 200 THEN 2 ELSE 1

\* requests.get(owm_url, timeout=10) is called once (line 104)
BackupRequests(resp) == 1

Repeat(x, n) == [i \in 1..n |-> x]

PrimaryRequestsWithRetry(resp) ==
    IF resp.exc \/ resp.status # 200 THEN 3 ELSE 1

\* requests.get(om_url, ...) is called once, outside any loop (line 85)
PrimaryRequests(resp) == 1

SafetyNetSpeedOnly(w) ==
    <<IF w[1] = None THEN Some(0) ELSE w[1], w[2]>>

\* the final safety net
SafetyNet(w) ==
    <<IF w[1] = None THEN Some(0) ELSE w[1],
      IF w[2] = None THEN Some(0) ELSE w[2]>>

\* fetch_city_data; now is the value of datetime.now() when the row is built
fetch_city_data(city_name, lat, lon, all_fires_df, provincial_load, now, ow, om, owm) ==
    LET local == calculate_local_impact(lat, lon, all_fires_df)
        pm    == FetchSmog(ow)
        planA == FetchOpenMeteo(om)
        planB == IF NeedsBackup(planA) THEN FetchOwmWind(planA, owm) ELSE planA
        wind  == SafetyNet(planB)
    IN  [raised |-> local.raised,
         backup |-> NeedsBackup(planA),
         calls |-> [ow |-> SmogRequests(ow), om |-> PrimaryRequests(om),
                    owm |-> IF NeedsBackup(planA) THEN BackupRequests(owm) ELSE 0],
         requests |-> Repeat("ow", SmogRequests(ow))
                        \o Repeat("om", PrimaryRequests(om))
                        \o (IF NeedsBackup(planA)
                            THEN Repeat("owm", BackupRequests(owm)) ELSE <<>>),
         row |-> [timestamp |-> now,
                  district |-> city_name,
                  pm2_5 |-> pm[1],
                  pm10 |-> pm[2],
                  wind_speed |-> wind[1],
                  wind_dir |-> wind[2],
                  provincial_fire_load |-> provincial_load,
                  local_fire_count |-> local.count,
                  local_fire_frp |-> local.frp]]

-----------------------------------------------------------------------------
(* add_wind_cardinals (app.py): pd.cut(wind_dir, bins, labels,               *)
(* include_lowest=True) with the default right=True.  pd.cut places x by     *)
(* bins.searchsorted(x, side="left"), moves x == bins[0] into the first bin  *)
(* when include_lowest is set, and yields NaN for index 0 and len(bins).     *)

bins == <<0, 450, 900, 1350, 1800, 2250, 2700, 3150, 3600>>
labels == <<"N", "NE", "E", "SE", "S", "SW", "W", "NW">>

SearchSortedLeft(b, x)  == Cardinality({i \in 1..Len(b) : b[i] < x})
SearchSortedRight(b, x) == Cardinality({i \in 1..Len(b) : b[i] <= x})

\* pd.cut(..., right=False): intervals closed on the left
PdCutLeftClosed(x) ==
    LET ids == SearchSortedRight(bins, x)
    IN  IF ids = 0 \/ ids = Len(bins) THEN None ELSE Some(labels[ids])

PdCut(x) ==
    LET ids0 == SearchSortedLeft(bins, x)
        ids  == IF x = bins[1] THEN 1 ELSE ids0
    IN  IF ids = 0 \/ ids = Len(bins) THEN None ELSE Some(labels[ids])

\* df is column-oriented: wind_dir is the column read, wind_cardinal the
\* column added (absent, the empty tuple, when the frame is empty)
add_wind_cardinals(df) ==
    IF df.wind_dir = <<>> THEN df
    ELSE [df EXCEPT !.wind_cardinal =
              [i \in 1..Len(df.wind_dir) |-> PdCut(df.wind_dir[i])]]

-----------------------------------------------------------------------------
(* Provider responses offered to fetch_city_data.                            *)

Exc(b)          == [exc |-> TRUE,  status |-> 0,  body |-> b]
Http(status, b) == [exc |-> FALSE, status |-> status, body |-> b]

OwBody(json, a, b)      == [json |-> json, pm2_5 |-> a, pm10 |-> b]
OmBody(json, cur, a, b) == [json |-> json, current |-> cur, speed |-> a, dir |-> b]
OwmBody(json, a, b)     == [json |-> json, speed |-> a, deg |-> b]

NoOwBody  == OwBody(FALSE, JMissing, JMissing)
NoOmBody  == OmBody(FALSE, FALSE, JMissing, JMissing)
NoOwmBody == OwmBody(FALSE, JMissing, JMissing)

OwResponses ==
    {Exc(NoOwBody), Http(500, NoOwBody), Http(200, NoOwBody)} \cup
    {Http(200, OwBody(TRUE, a, b)) :
        a \in {JMissing, JNull, JNum(352)}, b \in {JMissing, JNull, JNum(801)}}

OmResponses ==
    {Exc(NoOmBody), Http(500, NoOmBody), Http(429, NoOmBody), Http(200, NoOmBody),
     Http(200, OmBody(TRUE, FALSE, JMissing, JMissing))} \cup
    {Http(200, OmBody(TRUE, TRUE, a, b)) :
        a \in {JMissing, JNull, JNum(0), JNum(1230)},
        b \in {JMissing, JNull, JNum(2700), JNum(3600), JNum(3610)}}

OwmResponses ==
    {Exc(NoOwmBody), Http(401, NoOwmBody), Http(200, NoOwmBody)} \cup
    {Http(200, OwmBody(TRUE, a, b)) :
        a \in {JMissing, JNull, JNum(21), JNum(50)},
        b \in {JMissing, JNull, JNum(0), JNum(900), JNum(-10)}}

-----------------------------------------------------------------------------
(* Module-level configuration (lines 12-18): os.environ.get gives None for   *)
(* an unset variable and "" for an empty one; all([...]) takes both as       *)
(* false.                                                                    *)

CredentialValues == {"unset", "empty", "set"}

Envs ==
    [NASA_KEY : CredentialValues, OPENWEATHER_KEY : CredentialValues,
     DB_CONNECTION_STR : CredentialValues]

Truthy(v) == v = "set"

ConfigOkApiKeysOnly(env) ==
    Truthy(env.NASA_KEY) /\ Truthy(env.OPENWEATHER_KEY)

\* all([NASA_KEY, OPENWEATHER_KEY, DB_CONNECTION_STR])
ConfigOk(env) ==
    /\ Truthy(env.NASA_KEY)
    /\ Truthy(env.OPENWEATHER_KEY)
    /\ Truthy(env.DB_CONNECTION_STR)

-----------------------------------------------------------------------------
(* get_provincial_fires.  A feed outcome is a failure of pd.read_csv (or a   *)
(* body without a confidence column) or a table of detections.               *)

\* locations.py: "69.0,27.5,75.5,34.5" (west, south, east, north)
PUNJAB_MACRO_BBOX ==
    [west |-> 690000, south |-> 275000, east |-> 755000, north |-> 345000]

FireRequestsPerDistrict(districts) == Len(districts)

\* run_pipeline calls get_provincial_fires once, before the loop (line 140),
\* and get_provincial_fires reads one URL (line 25)
FireRequests(districts) == 1

FeedFailed == [failed |-> TRUE, rows |-> <<>>]
FeedTable(rs) == [failed |-> FALSE, rows |-> rs]

IsNotLow(f) == f.confidence # "l"

get_provincial_fires_unfiltered(feed) ==
    IF feed.failed THEN EmptyFrame ELSE Frame(feed.rows)

\* df[df['confidence'] != 'l'], or pd.DataFrame() on any exception
get_provincial_fires(feed) ==
    IF feed.failed THEN EmptyFrame
    ELSE Frame(SelectSeq(feed.rows, IsNotLow))

ProvincialLoadCount(all_fires_df) == Len(all_fires_df.rows)

\* all_fires_df['frp'].sum() if not all_fires_df.empty else 0
ProvincialLoad(all_fires_df) ==
    IF ~IsEmpty(all_fires_df) THEN SumFrp(all_fires_df.rows) ELSE 0

-----------------------------------------------------------------------------
(* run_pipeline: normalisation and the staging + merge write.                *)

Hour == 3600

FloorHourNearest(t) == ((t + 1800) \div 3600) * 3600
FloorHourIdentity(t) == t

\* .dt.floor('H')
FloorHour(t) == t - (t % Hour)

FloorTimestamps(batch_data) ==
    [i \in 1..Len(batch_data) |->
        [batch_data[i] EXCEPT !.timestamp = FloorHour(@)]]

AppendRowIfData(batch_data, row) ==
    IF row.pm2_5 = None THEN batch_data ELSE Append(batch_data, row)

\* batch_data.append(row)
AppendRow(batch_data, row) == Append(batch_data, row)

Key(row) == <<row.timestamp, row.district>>
HasKey(table, k) == \E t \in table : Key(t) = k

RECURSIVE InsertSkippingConflicts(_, _)
InsertSkippingConflicts(table, rows) ==
    IF rows = <<>> THEN table
    ELSE IF HasKey(table, Key(Head(rows)))
         THEN InsertSkippingConflicts(table, Tail(rows))
         ELSE InsertSkippingConflicts(table \cup {Head(rows)}, Tail(rows))

\* INSERT ... SELECT without the ON CONFLICT clause: the unique constraint
\* aborts the statement on the first duplicate key
merge_query_no_conflict_clause(table, staging) ==
    IF \E i \in 1..Len(staging) : HasKey(table, Key(staging[i]))
    THEN [ok |-> FALSE, table |-> table]
    ELSE [ok |-> TRUE, table |-> table \cup {staging[i] : i \in 1..Len(staging)}]

\* the same statement against a table without the unique constraint
merge_query_no_constraint(table, staging) ==
    [ok |-> TRUE, table |-> table \cup {staging[i] : i \in 1..Len(staging)}]

RECURSIVE Upsert(_, _)
Upsert(table, rows) ==
    IF rows = <<>> THEN table
    ELSE Upsert({t \in table : Key(t) # Key(Head(rows))} \cup {Head(rows)},
                Tail(rows))

\* the same statement with ON CONFLICT ... DO UPDATE
merge_query_do_update(table, staging) ==
    [ok |-> TRUE, table |-> Upsert(table, staging)]

\* INSERT INTO smog_metrics ... SELECT ... FROM smog_staging
\* ON CONFLICT (timestamp, district) DO NOTHING
merge_query(table, staging) ==
    [ok |-> TRUE, table |-> InsertSkippingConflicts(table, staging)]

\* a statement-by-statement autocommit would keep what was inserted before
\* the error
PartlyCommitted(table, staging) ==
    IF staging = <<>> THEN table
    ELSE InsertSkippingConflicts(table, <<staging[1]>>)

\* an exception leaves the with-block before conn.commit(): the connection
\* is closed and its transaction rolled back
RolledBack(table, staging) == table

ExceptReraise(rec, exc) ==
    [rec EXCEPT !.pc = "crashed", !.error = exc]

\* except Exception as e: print(f"DATABASE ERROR: {e}")  (lines 195-196)
ExceptDatabaseError(rec, exc) ==
    [rec EXCEPT !.pc = "done", !.error = exc, !.logged = TRUE]

-----------------------------------------------------------------------------
(* The pipeline: two invocations of run_pipeline against one store.          *)

Runs == {"A", "B"}

\* 10:05:00 and 10:59:59 of day 0
StartTimes == {36300, 39599}

Detection(lat, lon, conf, frp) ==
    [latitude |-> lat, longitude |-> lon, confidence |-> conf, frp |-> frp]

\* near Islamabad and Rawalpindi (high), far south (low), near Attock (nominal)
FeedOutcomes ==
    {FeedFailed,
     FeedTable(<<Detection(336000, 730300, "l", 2)>>),
     FeedTable(<<Detection(336000, 730300, "h", 7),
                 Detection(300000, 720000, "l", 5),
                 Detection(337700, 720000, "n", 3)>>)}

PipelineOw  == {Exc(NoOwBody), Http(200, OwBody(TRUE, JNum(352), JNum(801)))}
PipelineOm  == {Http(500, NoOmBody),
                Http(200, OmBody(TRUE, TRUE, JNum(1230), JNum(2700)))}
PipelineOwm == {Http(401, NoOwmBody),
                Http(200, OwmBody(TRUE, JNum(50), JNum(900)))}

\* what the three providers answer for one district: <<ow, om, owm>>
Answers == PipelineOw \X PipelineOm \X PipelineOwm

NoCalls == [fire |-> 0, ow |-> 0, om |-> 0, owm |-> 0, db |-> 0]

\* a process before its first statement; feed is the fire feed's answer,
\* calls counts the requests sent to each provider and the store accesses
InitRun(env) ==
    [pc |-> "import", env |-> env, bbox |-> None, feed |-> FeedFailed,
     all_fires_df |-> EmptyFrame, provincial_load |-> 0,
     i |-> 1, batch_data |-> <<>>, df |-> <<>>, error |-> "none",
     logged |-> FALSE, calls |-> NoCalls]

Init ==
    /\ clock \in StartTimes
    /\ smog_metrics = {}
    /\ smog_staging = <<>>
    /\ run \in [Runs -> {InitRun(env) : env \in Envs}]
    /\ fc = <<>>
    /\ li = <<>>
    /\ wc = <<>>
    /\ ld = <<>>

Others == <<fc, li, wc, ld>>

\* the safety check at import (lines 12-18): raise ValueError
ImportModule(r) ==
    /\ run[r].pc = "import"
    /\ run' = [run EXCEPT
                 ![r].pc = IF ConfigOk(run[r].env) THEN "start" ELSE "aborted"]
    /\ UNCHANGED <<clock, smog_metrics, smog_staging, Others>>

\* Step 1 (lines 139-146)
GetProvincialFires(r, feeds) ==
    /\ run[r].pc = "start"
    /\ \E feed \in feeds :
          LET fires == get_provincial_fires(feed)
          IN  run' = [run EXCEPT
                        ![r].bbox = Some(PUNJAB_MACRO_BBOX),
                        ![r].feed = feed,
                        ![r].calls.fire = @ + FireRequests(DISTRICTS),
                        ![r].all_fires_df = fires,
                        ![r].provincial_load = ProvincialLoad(fires),
                        ![r].pc = IF Len(DISTRICTS) = 0 THEN "prepare" ELSE "loop"]
    /\ UNCHANGED <<clock, smog_metrics, smog_staging, Others>>

\* pd.read_csv(url) opens the URL without a timeout (line 25): when the feed's
\* server accepts the connection and sends nothing, the call does not return
FireFeedStalls(r) ==
    /\ run[r].pc = "start"
    /\ run' = [run EXCEPT
                 ![r].bbox = Some(PUNJAB_MACRO_BBOX),
                 ![r].calls.fire = @ + FireRequests(DISTRICTS),
                 ![r].pc = "blocked"]
    /\ UNCHANGED <<clock, smog_metrics, smog_staging, Others>>

\* Step 2, one iteration of the district loop (lines 148-152); the row is
\* stamped with the clock, then time.sleep(1).  The local impact is computed
\* before any request (line 55).
FetchCity(r, answers) ==
    /\ run[r].pc = "loop"
    /\ \E a \in answers :
          LET d   == DISTRICTS[run[r].i]
              res == fetch_city_data(d.name, d.lat, d.lon, run[r].all_fires_df,
                                     run[r].provincial_load, clock,
                                     a[1], a[2], a[3])
          IN  run' = [run EXCEPT
                        ![r].batch_data =
                            IF res.raised THEN @ ELSE AppendRow(@, res.row),
                        ![r].i = IF res.raised THEN @ ELSE @ + 1,
                        ![r].calls.ow = IF res.raised THEN @ ELSE @ + res.calls.ow,
                        ![r].calls.om = IF res.raised THEN @ ELSE @ + res.calls.om,
                        ![r].calls.owm = IF res.raised THEN @ ELSE @ + res.calls.owm,
                        ![r].pc = IF res.raised THEN "crashed"
                                  ELSE IF run[r].i = Len(DISTRICTS)
                                       THEN "prepare" ELSE "loop"]
    /\ clock' = clock + 1
    /\ UNCHANGED <<smog_metrics, smog_staging, Others>>

\* Step 3 (lines 154-165)
Prepare(r) ==
    /\ run[r].pc = "prepare"
    /\ run' = [run EXCEPT
                 ![r].df = FloorTimestamps(run[r].batch_data),
                 ![r].pc = IF run[r].batch_data = <<>> THEN "done" ELSE "stage"]
    /\ UNCHANGED <<clock, smog_metrics, smog_staging, Others>>

WithDbCall(rec) == [rec EXCEPT !.calls.db = @ + 1]

\* create_engine, connect and df.to_sql(..., if_exists='replace'), which
\* pandas runs and commits as one transaction (lines 167-174); a database
\* error may come from the connection or from the staging write
Stage(r) ==
    /\ run[r].pc = "stage"
    /\ \E fault \in {"none", "connect", "to_sql"} :
          IF fault = "none"
          THEN /\ smog_staging' = run[r].df
               /\ run' = [run EXCEPT ![r] = [WithDbCall(@) EXCEPT !.pc = "merge"]]
          ELSE /\ smog_staging' = smog_staging
               /\ run' = [run EXCEPT ![r] =
                            ExceptDatabaseError(WithDbCall(@), "OperationalError")]
    /\ UNCHANGED <<clock, smog_metrics, Others>>

\* conn.execute(merge_query) and conn.commit() (lines 176-196); a database
\* error may come from the statement or from the commit
Merge(r) ==
    /\ run[r].pc = "merge"
    /\ \E fault \in {"none", "execute", "commit"} :
          LET res == merge_query(smog_metrics, smog_staging)
          IN  IF fault = "none" /\ res.ok
              THEN /\ smog_metrics' = res.table
                   /\ run' = [run EXCEPT ![r] = [WithDbCall(@) EXCEPT !.pc = "done"]]
              ELSE /\ smog_metrics' = RolledBack(smog_metrics, smog_staging)
                   /\ run' = [run EXCEPT ![r] =
                                ExceptDatabaseError(WithDbCall(@),
                                    IF fault = "none" THEN "IntegrityError"
                                    ELSE "OperationalError")]
    /\ UNCHANGED <<clock, smog_staging, Others>>

\* One invocation of run_pipeline (run A), every feed outcome and every
\* combination of provider answers per district.
Next ==
    \/ ImportModule("A")
    \/ GetProvincialFires("A", FeedOutcomes)
    \/ FireFeedStalls("A")
    \/ FetchCity("A", Answers)
    \/ Prepare("A")
    \/ Stage("A")
    \/ Merge("A")

Spec == Init /\ [][Next]_vars

\* the interpreter keeps executing the process while it has a next statement
SpecLive == Spec /\ WF_vars(Next)

\* Two invocations one after the other: B starts when A has returned.
SeqFeeds == {FeedFailed, FeedTable(<<Detection(336000, 730300, "h", 7)>>)}
SeqAnswers ==
    {<<Exc(NoOwBody), Http(500, NoOmBody), Http(401, NoOwmBody)>>,
     <<Http(200, OwBody(TRUE, JNum(352), JNum(801))),
       Http(200, OmBody(TRUE, TRUE, JNum(1230), JNum(2700))),
       Http(401, NoOwmBody)>>}

NextSequential ==
    \/ ImportModule("A")
    \/ ImportModule("B")
    \/ GetProvincialFires("A", SeqFeeds)
    \/ FetchCity("A", SeqAnswers)
    \/ Prepare("A")
    \/ Stage("A")
    \/ Merge("A")
    \/ (run["A"].pc = "done" /\ GetProvincialFires("B", SeqFeeds))
    \/ FetchCity("B", SeqAnswers)
    \/ Prepare("B")
    \/ Stage("B")
    \/ Merge("B")

SpecSequential == Init /\ [][NextSequential]_vars

\* Two overlapping invocations, interleaved step by step.
NextOverlap ==
    \E r \in Runs :
        \/ ImportModule(r)
        \/ GetProvincialFires(r, SeqFeeds)
        \/ FetchCity(r, SeqAnswers)
        \/ Prepare(r)
        \/ Stage(r)
        \/ Merge(r)

SpecOverlap == Init /\ [][NextOverlap]_vars

-----------------------------------------------------------------------------
(* Specification of calculate_local_impact as a pure function.               *)

MaxFires == 2

ImpactLats == {309999, 310000, 319000, 320000, 320001, 330000}
ImpactLons == {735000, 740000, 743000, 745001}
ImpactFrps == {3, 7}
ImpactDetections ==
    [latitude : ImpactLats, longitude : ImpactLons, frp : ImpactFrps]
ImpactCentroids ==
    {<<315000, 740000>>} \cup
    {<<DISTRICTS[i].lat, DISTRICTS[i].lon>> : i \in 1..Len(DISTRICTS)}

SeqsUpTo(S, n) == UNION {[1..k -> S] : k \in 0..n}

ImpactFrames ==
    {EmptyFrame} \cup {Frame(rs) : rs \in SeqsUpTo(ImpactDetections, MaxFires)}

PinnedPipeline ==
    /\ clock = 0
    /\ smog_metrics = {}
    /\ smog_staging = <<>>
    /\ run = <<>>

InitImpact ==
    /\ PinnedPipeline
    /\ fc = <<>>
    /\ wc = <<>>
    /\ ld = <<>>
    /\ \E c \in ImpactCentroids, df \in ImpactFrames :
          li = [called |-> FALSE, city_lat |-> c[1], city_lon |-> c[2],
                all_fires_df |-> df,
                result |-> [raised |-> FALSE, count |-> 0, frp |-> 0]]

CallLocalImpact ==
    /\ ~li.called
    /\ li' = [li EXCEPT !.called = TRUE,
                        !.result = calculate_local_impact(
                                       li.city_lat, li.city_lon, li.all_fires_df)]
    /\ UNCHANGED <<clock, smog_metrics, smog_staging, run, fc, wc, ld>>

NextImpact == CallLocalImpact

SpecImpact == InitImpact /\ [][NextImpact]_vars

-----------------------------------------------------------------------------
(* Specification of add_wind_cardinals as a pure function of a frame of at   *)
(* most one row.                                                             *)

DirBelow == 10
DirAbove == 3610

InitCardinal ==
    /\ PinnedPipeline
    /\ fc = <<>>
    /\ li = <<>>
    /\ ld = <<>>
    /\ \E col \in {<<>>} \cup {<<d>> : d \in (0 - DirBelow)..DirAbove} :
          wc = [called |-> FALSE, wind_dir |-> col, wind_cardinal |-> <<>>]

CallAddWindCardinals ==
    /\ ~wc.called
    /\ wc' = [add_wind_cardinals(wc) EXCEPT !.called = TRUE]
    /\ UNCHANGED <<clock, smog_metrics, smog_staging, run, fc, li, ld>>

NextCardinal == CallAddWindCardinals

SpecCardinal == InitCardinal /\ [][NextCardinal]_vars

-----------------------------------------------------------------------------
(* Claims about calculate_local_impact (SpecImpact).                         *)

RECURSIVE SumFrpAt(_, _)
SumFrpAt(idx, rows) ==
    IF idx = {} THEN 0
    ELSE LET i == CHOOSE j \in idx : TRUE
         IN  rows[i].frp + SumFrpAt(idx \ {i}, rows)

InCatchment(rows, lat, lon) ==
    {i \in 1..Len(rows) :
        /\ lat - 5000 <= rows[i].latitude  /\ rows[i].latitude  <= lat + 5000
        /\ lon - 5000 <= rows[i].longitude /\ rows[i].longitude <= lon + 5000}

\* C8: the count is the number of detections with latitude in
\* [lat-0.5, lat+0.5] and longitude in [lon-0.5, lon+0.5], bounds inclusive,
\* and the intensity is the sum of their radiative power.
C8_LocalImpact ==
    li.called =>
        LET hit == InCatchment(li.all_fires_df.rows, li.city_lat, li.city_lon)
        IN  /\ ~li.result.raised
            /\ li.result.count = Cardinality(hit)
            /\ li.result.frp = SumFrpAt(hit, li.all_fires_df.rows)

\* centroid (31.5, 74.0), one detection at (31.9, 74.3) counted with its own
\* power and one at (33.0, 74.0) left out
C8_Witness ==
    /\ li.called
    /\ li.city_lat = 315000 /\ li.city_lon = 740000
    /\ Len(li.all_fires_df.rows) = 2
    /\ li.all_fires_df.rows[1] =
           [latitude |-> 319000, longitude |-> 743000, frp |-> 7]
    /\ li.all_fires_df.rows[2] =
           [latitude |-> 330000, longitude |-> 740000, frp |-> 3]
    /\ li.result.count = 1
    /\ li.result.frp = 7

\* C9: an empty fire set gives count 0 and intensity 0, for every centroid.
C9_EmptyFireSet ==
    (li.called /\ IsEmpty(li.all_fires_df)) =>
        li.result = [raised |-> FALSE, count |-> 0, frp |-> 0]

C9_Witness ==
    /\ li.called
    /\ li.all_fires_df = EmptyFrame
    /\ li.city_lat = DISTRICTS[1].lat
    /\ li.result.count = 0 /\ li.result.frp = 0

-----------------------------------------------------------------------------
(* Claims about add_wind_cardinals (SpecCardinal).                           *)

-----------------------------------------------------------------------------
(* Local impact against the provincial load (SpecImpact)                     *)

\* C30: for a district and the retained detections of a cycle (radiative
\* power not negative), the local count is at most the number of detections,
\* the local intensity is at most the provincial load of the cycle, and a
\* local count of 0 comes with a local intensity of 0.
C30_LocalWithinProvincial ==
    li.called =>
        /\ li.result.count <= Len(li.all_fires_df.rows)
        /\ li.result.frp <= ProvincialLoad(li.all_fires_df)
        /\ li.result.count = 0 => li.result.frp = 0

\* two detections, one of them outside the district's catchment
C30_Witness ==
    /\ li.called
    /\ Len(li.all_fires_df.rows) = 2
    /\ li.result.count = 1
    /\ li.result.frp > 0
    /\ li.result.frp < ProvincialLoad(li.all_fires_df)

-----------------------------------------------------------------------------
(* The full circle (SpecCardinal)                                            *)

\* C11: a wind direction of 360 is treated as 0: it gets the sector of 0,
\* namely N.  Refuted by the code.
C11_FullCircleIsNorth ==
    (wc.called /\ wc.wind_dir = <<3600>>) =>
        /\ wc.wind_cardinal = <<PdCut(0)>>
        /\ wc.wind_cardinal = <<Some("N")>>

-----------------------------------------------------------------------------
(* Specification of fetch_city_data as a function of the three provider      *)
(* responses (particulates ow, primary wind om, secondary wind owm).         *)

CollectorFrames ==
    {EmptyFrame, Frame(<<[latitude |-> 339000, longitude |-> 733000, frp |-> 7]>>)}

NoRow ==
    [timestamp |-> 0, district |-> "", pm2_5 |-> None, pm10 |-> None,
     wind_speed |-> None, wind_dir |-> None, provincial_fire_load |-> 0,
     local_fire_count |-> 0, local_fire_frp |-> 0]

InitCollector ==
    /\ PinnedPipeline
    /\ li = <<>>
    /\ wc = <<>>
    /\ ld = <<>>
    /\ \E ow \in OwResponses, om \in OmResponses, owm \in OwmResponses,
          df \in CollectorFrames :
          fc = [called |-> FALSE, all_fires_df |-> df, ow |-> ow, om |-> om,
                owm |-> owm,
                result |-> [raised |-> FALSE, backup |-> FALSE,
                            calls |-> [ow |-> 0, om |-> 0, owm |-> 0],
                            requests |-> <<>>,
                            row |-> NoRow]]

CallFetchCityData ==
    /\ ~fc.called
    /\ fc' = [fc EXCEPT
                !.called = TRUE,
                !.result = fetch_city_data(
                    DISTRICTS[1].name, DISTRICTS[1].lat, DISTRICTS[1].lon,
                    fc.all_fires_df, SumFrp(fc.all_fires_df.rows), 36300,
                    fc.ow, fc.om, fc.owm)]
    /\ UNCHANGED <<clock, smog_metrics, smog_staging, run, li, wc, ld>>

NextCollector == CallFetchCityData

SpecCollector == InitCollector /\ [][NextCollector]_vars

-----------------------------------------------------------------------------
(* load_data (app.py): SELECT * FROM smog_metrics WHERE timestamp BETWEEN    *)
(* :start AND :end ORDER BY timestamp DESC.  SQL leaves the order of rows    *)
(* with equal timestamps open, so the call has a set of possible results.    *)

BetweenHalfOpen(t, start, end) == start <= t /\ t < end

\* timestamp BETWEEN :start AND :end
Between(t, start, end) == start <= t /\ t <= end

\* ORDER BY timestamp DESC: every sequence of the rows with the latest first
RECURSIVE OrderByTimestampDesc(_)
OrderByTimestampDesc(rows) ==
    IF rows = {} THEN {<<>>}
    ELSE LET latest == {t \in rows : \A u \in rows : u.timestamp <= t.timestamp}
         IN  UNION {{<<t>> \o rest : rest \in OrderByTimestampDesc(rows \ {t})} :
                    t \in latest}

load_data_half_open(table, start, end) ==
    OrderByTimestampDesc({t \in table : BetweenHalfOpen(t.timestamp, start, end)})

load_data(table, start, end) ==
    OrderByTimestampDesc({t \in table : Between(t.timestamp, start, end)})

\* Specification of load_data: a permanent table as the pipeline leaves it
\* (rows on the hour, one per hour and district) and a pair of bounds on and
\* off the stored hours.
StoredHours == {36000, 39600, 43200}
QueryBounds == {32400, 36000, 37800, 39600, 43200}

StoredRow(h, d) ==
    [NoRow EXCEPT !.timestamp = h, !.district = d.name, !.pm2_5 = Some(352),
                  !.wind_speed = Some(1230), !.wind_dir = Some(2700)]

StoredRows == {StoredRow(h, DISTRICTS[i]) : h \in StoredHours, i \in 1..Len(DISTRICTS)}

InitQuery ==
    /\ clock = 0
    /\ smog_metrics \in SUBSET StoredRows
    /\ smog_staging = <<>>
    /\ run = <<>>
    /\ fc = <<>>
    /\ li = <<>>
    /\ wc = <<>>
    /\ \E start \in QueryBounds, end \in QueryBounds :
          ld = [called |-> FALSE, start |-> start, end |-> end, df |-> <<>>]

CallLoadData ==
    /\ ~ld.called
    /\ \E df \in load_data(smog_metrics, ld.start, ld.end) :
          ld' = [ld EXCEPT !.called = TRUE, !.df = df]
    /\ UNCHANGED <<clock, smog_metrics, smog_staging, run, fc, li, wc>>

NextQuery == CallLoadData

SpecQuery == InitQuery /\ [][NextQuery]_vars

-----------------------------------------------------------------------------
(* Claims about fetch_city_data (SpecCollector).                             *)

\* a provider failed: exception or timeout, a status other than 200, or a
\* payload that does not yield the reading (unparsable, enclosing object or
\* field missing; for a wind provider, no speed: missing or null)
SmogFailed(r) ==
    r.exc \/ r.status # 200 \/ ~r.body.json
        \/ r.body.pm2_5.k = "missing" \/ r.body.pm10.k = "missing"

PrimaryNoSpeed(r) ==
    r.exc \/ r.status # 200 \/ ~r.body.json \/ ~r.body.current
        \/ r.body.speed.k # "num"

SecondaryNoSpeed(r) ==
    r.exc \/ r.status # 200 \/ ~r.body.json \/ r.body.speed.k # "num"

\* C5: in every record the collector returns, wind_speed and wind_dir are
\* both non-null, whatever the providers answered.
C5_WindNeverNull ==
    fc.called =>
        /\ fc.result.row.wind_speed # None
        /\ fc.result.row.wind_dir # None

\* the primary answers 200 with a speed and a null direction, so only the
\* safety net makes the direction non-null
C5_Witness ==
    /\ fc.called
    /\ fc.om = Http(200, OmBody(TRUE, TRUE, JNum(1230), JNull))
    /\ fc.result.row.wind_speed = Some(1230)
    /\ fc.result.row.wind_dir = Some(0)

\* C6: when the particulate provider and both wind providers fail, the
\* collector still returns a row, with pm2_5 and pm10 null and wind_speed
\* and wind_dir 0.0, and raises nothing.  Refuted by the code.
C6_AllFailGivesDefaults ==
    (fc.called /\ SmogFailed(fc.ow) /\ PrimaryNoSpeed(fc.om)
               /\ SecondaryNoSpeed(fc.owm)) =>
        /\ ~fc.result.raised
        /\ fc.result.row.pm2_5 = None
        /\ fc.result.row.pm10 = None
        /\ fc.result.row.wind_speed = Some(0)
        /\ fc.result.row.wind_dir = Some(0)

\* C7: when the primary yields no wind speed and the secondary answers 200
\* with speed s (m/s) and direction d, the row has wind_speed = 3.6 * s and
\* wind_dir = d (s in 0.1 m/s, wind_speed in 0.01 km/h: the factor is 36).
C7_WindFallbackConverts ==
    (fc.called /\ PrimaryNoSpeed(fc.om) /\ ~fc.owm.exc /\ fc.owm.status = 200
               /\ fc.owm.body.json /\ fc.owm.body.speed.k = "num"
               /\ fc.owm.body.deg.k = "num") =>
        /\ fc.result.row.wind_speed = Some(36 * fc.owm.body.speed.v)
        /\ fc.result.row.wind_dir = Some(fc.owm.body.deg.v)

\* malformed primary payload, secondary 5.0 m/s at 90 degrees: 18.0 km/h, 90
C7_Witness ==
    /\ fc.called
    /\ fc.om = Http(200, NoOmBody)
    /\ fc.owm = Http(200, OwmBody(TRUE, JNum(50), JNum(900)))
    /\ fc.result.row.wind_speed = Some(1800)
    /\ fc.result.row.wind_dir = Some(900)

-----------------------------------------------------------------------------
(* Claims about run_pipeline.                                                *)

PastLoop(r) == run[r].pc \in {"prepare", "stage", "merge", "done"}
Committed(r) == run[r].pc = "done" /\ run[r].error = "none" /\ run[r].df # <<>>

\* C1 (Spec): a cycle that reaches the end of the district loop holds exactly
\* one row per configured district, in registry order, whatever the fire
\* feed and the three providers answered.
C1_OneRowPerDistrict ==
    \A r \in Runs :
        PastLoop(r) =>
            /\ Len(run[r].batch_data) = Len(DISTRICTS)
            /\ \A i \in 1..Len(DISTRICTS) :
                  run[r].batch_data[i].district = DISTRICTS[i].name

\* the loop has ended after a failed fire feed and the failure of every
\* provider for every district
C1_Witness ==
    /\ run["A"].pc = "prepare"
    /\ run["A"].all_fires_df = EmptyFrame
    /\ Len(run["A"].batch_data) = Len(DISTRICTS)
    /\ \A i \in 1..Len(DISTRICTS) :
          /\ run["A"].batch_data[i].pm2_5 = None
          /\ run["A"].batch_data[i].wind_speed = Some(0)

Hours == {36000, 39600}

StampedIn(rows, h) ==
    /\ rows # <<>>
    /\ \A i \in 1..Len(rows) :
          h <= rows[i].timestamp /\ rows[i].timestamp < h + 3600

RowsOfHour(h) ==
    {t \in smog_metrics : h <= t.timestamp /\ t.timestamp < h + 3600}

\* C2 (SpecSequential): once a run has committed with all its rows stamped
\* within hour h, the store holds one row per district for h, and still
\* does after a second run in the same hour: its rows are rejected.
C2_Idempotent ==
    \A h \in Hours :
        (Committed("A") /\ StampedIn(run["A"].batch_data, h)) =>
            Cardinality(RowsOfHour(h)) = Len(DISTRICTS)

\* both runs committed within 10:00-11:00, the second with other readings
C2_Witness ==
    /\ Committed("A") /\ Committed("B")
    /\ StampedIn(run["A"].batch_data, 36000)
    /\ StampedIn(run["B"].batch_data, 36000)
    /\ run["A"].df[1].pm2_5 # run["B"].df[1].pm2_5
    /\ Cardinality(RowsOfHour(36000)) = Len(DISTRICTS)

KeysOf(rows) == {Key(rows[i]) : i \in 1..Len(rows)}

\* C3 (SpecOverlap): under every interleaving of two runs the permanent
\* table never holds two rows with one (timestamp, district); a key both
\* runs tried to insert is stored exactly once, and the conflict is no
\* error in either run.
C3_UniqueKeyNoConflictError ==
    /\ \A t1 \in smog_metrics, t2 \in smog_metrics :
          Key(t1) = Key(t2) => t1 = t2
    /\ \A r \in Runs : run[r].error # "IntegrityError"
    /\ (Committed("A") /\ Committed("B")) =>
          \A k \in KeysOf(run["A"].df) \cap KeysOf(run["B"].df) :
              Cardinality({t \in smog_metrics : Key(t) = k}) = 1

\* both runs committed, with different readings for the same key
C3_Witness ==
    /\ Committed("A") /\ Committed("B")
    /\ Key(run["A"].df[1]) = Key(run["B"].df[1])
    /\ run["A"].df[1] # run["B"].df[1]
    /\ Cardinality({t \in smog_metrics : Key(t) = Key(run["A"].df[1])}) = 1

\* C4 (Spec): every row of the staging area and of the permanent table is on
\* the hour, and the floored timestamp is the start of the hour the row was
\* stamped in: 10:05:00 and 10:59:59 both become 10:00:00.
C4_TimestampFloored ==
    /\ \A i \in 1..Len(smog_staging) : smog_staging[i].timestamp % 3600 = 0
    /\ \A t \in smog_metrics : t.timestamp % 3600 = 0
    /\ \A r \in Runs : \A i \in 1..Len(run[r].df) :
          LET raw == run[r].batch_data[i].timestamp
              fl  == run[r].df[i].timestamp
          IN  /\ fl % 3600 = 0
              /\ fl <= raw /\ raw < fl + 3600
              /\ raw \in {36300, 39599} => fl = 36000

\* a row stamped 10:59:59 is in the permanent table at 10:00:00, the next
\* one, stamped 11:00:00, at 11:00:00
C4_Witness ==
    /\ Committed("A")
    /\ run["A"].batch_data[1].timestamp = 39599
    /\ run["A"].df[1].timestamp = 36000
    /\ run["A"].df[2].timestamp = 39600
    /\ run["A"].df[1] \in smog_metrics
    /\ smog_staging = run["A"].df

-----------------------------------------------------------------------------
(* Provider failures in fetch_city_data (SpecCollector)                      *)

\* C20: when the particulate request fails (exception or timeout, a status
\* other than 200, an unparsable body, a body without pm2_5 or without pm10)
\* the record has pm2_5 and pm10 both null, and the collector raises nothing.
C20_ParticulateFailureGivesNulls ==
    (fc.called /\ SmogFailed(fc.ow)) =>
        /\ fc.result.row.pm2_5 = None
        /\ fc.result.row.pm10 = None
        /\ ~fc.result.raised

\* the body has pm2_5 = 35.2 and no pm10
C20_Witness ==
    /\ fc.called
    /\ fc.ow = Http(200, OwBody(TRUE, JNum(352), JMissing))
    /\ fc.result.row.pm2_5 = None
    /\ fc.result.row.pm10 = None

RequestFailed(r) == r.exc \/ r.status # 200

\* C22: the secondary wind provider is requested exactly when the primary
\* request left no wind speed (exception, status other than 200, unparsable
\* body, no current object, speed missing or null), and then only after the
\* primary request: no request to the primary follows one to the secondary.
C22_SecondaryOnlyAfterPrimaryFailed ==
    fc.called =>
        LET reqs == fc.result.requests
            sec  == {i \in 1..Len(reqs) : reqs[i] = "owm"}
            prim == {i \in 1..Len(reqs) : reqs[i] = "om"}
        IN  /\ sec # {} <=> PrimaryNoSpeed(fc.om)
            /\ \A i \in sec : \E j \in prim : j < i
            /\ \A i \in sec : \A k \in prim : k < i

\* the primary gave a speed of 0 and no direction: the secondary is not asked
C22_Witness ==
    /\ fc.called
    /\ fc.om = Http(200, OmBody(TRUE, TRUE, JNum(0), JNull))
    /\ fc.result.requests = <<"ow", "om">>
    /\ fc.result.row.wind_speed = Some(0)

\* C26: the wind_dir of every record the collector returns lies between 0
\* and 360, whatever numbers the two wind providers sent as direction.
\* Refuted: the direction is stored as received.
C26_WindDirInRange ==
    fc.called =>
        \E d \in 0..3600 : fc.result.row.wind_dir = Some(d)

\* the speed and direction a provider's answer carries, when it carries both
PrimaryPair(r) ==
    IF ~PrimaryNoSpeed(r) /\ r.body.dir.k = "num"
    THEN {<<Some(r.body.speed.v), Some(r.body.dir.v)>>} ELSE {}

SecondaryPair(r) ==
    IF ~SecondaryNoSpeed(r) /\ r.body.deg.k = "num"
    THEN {<<Some(r.body.speed.v * 36), Some(r.body.deg.v)>>} ELSE {}

\* C29: the wind_speed and wind_dir of a record are the pair of the primary
\* answer, the pair of the secondary answer, or the default pair 0.0, 0.0.
\* Refuted: the two fields are assigned and defaulted one by one.
C29_WindPairFromOneSource ==
    fc.called =>
        <<fc.result.row.wind_speed, fc.result.row.wind_dir>> \in
            PrimaryPair(fc.om) \cup SecondaryPair(fc.owm)
                \cup {<<Some(0), Some(0)>>}

CountOf(name, reqs) == Cardinality({i \in 1..Len(reqs) : reqs[i] = name})

\* C24: for one district the particulate provider is requested exactly once
\* and the secondary wind provider at most once, whatever the three providers
\* answer; a failed request is not repeated.
C24_NoRetryInPlace ==
    fc.called =>
        /\ CountOf("ow", fc.result.requests) = 1
        /\ CountOf("owm", fc.result.requests) <= 1
        /\ fc.result.calls.ow = 1
        /\ fc.result.calls.owm <= 1

\* all three requests fail: each was sent once
C24_Witness ==
    /\ fc.called
    /\ fc.ow = Http(500, NoOwBody)
    /\ fc.om.exc
    /\ fc.owm = Http(401, NoOwmBody)
    /\ fc.result.requests = <<"ow", "om", "owm">>

\* C18 as stated: after a failed request the primary wind provider is asked
\* again before the collector turns to the secondary one.  Refuted.
C18_PrimaryRetried ==
    (fc.called /\ RequestFailed(fc.om)) => fc.result.calls.om >= 2

\* C18, amended: the primary wind provider is asked exactly once for a
\* district, whatever it answers (a rate-limit response included); the
\* secondary is asked once, at once, exactly when the primary left no speed.
C18_PrimarySingleAttempt ==
    fc.called =>
        /\ fc.result.calls.om = 1
        /\ fc.result.backup <=> PrimaryNoSpeed(fc.om)
        /\ fc.result.calls.owm = IF PrimaryNoSpeed(fc.om) THEN 1 ELSE 0

C18_Witness ==
    /\ fc.called
    /\ ~fc.om.exc
    /\ fc.om.status = 429
    /\ fc.result.calls.om = 1
    /\ fc.result.calls.owm = 1
    /\ fc.result.backup

-----------------------------------------------------------------------------
(* Configuration                                                             *)

Credentials == {"NASA_KEY", "OPENWEATHER_KEY", "DB_CONNECTION_STR"}

AnyAbsent(env) == \E k \in Credentials : env[k] = "unset"

AllPresent(env) == \A k \in Credentials : env[k] = "set"

\* C12: a process one of whose three credentials is absent never gets past
\* the configuration check: it sends no request to any provider and never
\* touches the store; a process with all three present is not aborted.
C12_FailFastInit ==
    \A r \in Runs :
        /\ AnyAbsent(run[r].env) =>
              /\ run[r].pc \in {"import", "aborted"}
              /\ run[r].calls = NoCalls
        /\ AllPresent(run[r].env) => run[r].pc # "aborted"

C12_Witness ==
    /\ run["A"].pc = "aborted"
    /\ run["A"].env.NASA_KEY = "set"
    /\ run["A"].env.OPENWEATHER_KEY = "set"
    /\ run["A"].env.DB_CONNECTION_STR = "unset"

-----------------------------------------------------------------------------
(* The fire signal of a cycle                                                *)

FiresFetched(r) == run[r].calls.fire = 1

ZeroFireSignal(row) ==
    /\ row.provincial_fire_load = 0
    /\ row.local_fire_count = 0
    /\ row.local_fire_frp = 0

\* C13: when the fire feed could not be fetched or parsed, the fire client
\* returns the empty set, no step of the cycle raises, the district loop
\* collects a row for every district, the cycle goes on to the store, and all
\* of its rows (collected, staged by it, merged by it) carry a provincial load,
\* a local count and a local intensity of 0.
C13_FeedFailureNotFatal ==
    \A r \in Runs :
        (FiresFetched(r) /\ run[r].feed.failed) =>
            /\ run[r].all_fires_df = EmptyFrame
            /\ run[r].pc # "crashed"
            /\ \A i \in 1..Len(run[r].batch_data) :
                  ZeroFireSignal(run[r].batch_data[i])
            /\ \A i \in 1..Len(run[r].df) : ZeroFireSignal(run[r].df[i])
            /\ run[r].pc \in {"prepare", "stage", "merge", "done"} =>
                  Len(run[r].batch_data) = Len(DISTRICTS)
            /\ run[r].pc \in {"merge", "done"} => run[r].calls.db >= 1
            /\ (run[r].pc = "done" /\ run[r].error = "none") =>
                  \A i \in 1..Len(run[r].df) : run[r].df[i] \in smog_metrics

C13_Witness ==
    /\ FiresFetched("A")
    /\ run["A"].feed.failed
    /\ run["A"].pc = "done"
    /\ run["A"].error = "none"
    /\ run["A"].calls.db = 2
    /\ \E row \in smog_metrics : ZeroFireSignal(row)

NonLow(rows) == {i \in 1..Len(rows) : rows[i].confidence \in {"n", "h"}}

\* the three fire columns of district d as the retained detections of the
\* feed's answer give them
FireSignalOf(rows, d) ==
    LET kept  == NonLow(rows)
        local == kept \cap InCatchment(rows, d.lat, d.lon)
    IN  [provincial_fire_load |-> SumFrpAt(kept, rows),
         local_fire_count |-> Cardinality(local),
         local_fire_frp |-> SumFrpAt(local, rows)]

FireSignal(row) ==
    [provincial_fire_load |-> row.provincial_fire_load,
     local_fire_count |-> row.local_fire_count,
     local_fire_frp |-> row.local_fire_frp]

\* C14: the set the fire client returns holds no low-confidence detection,
\* and the three fire columns of every row of the cycle (collected, staged,
\* merged) are what the nominal and high detections of the feed alone give.
C14_LowConfidenceExcluded ==
    \A r \in Runs :
        (FiresFetched(r) /\ ~run[r].feed.failed) =>
            /\ \A j \in 1..Len(run[r].all_fires_df.rows) :
                  run[r].all_fires_df.rows[j].confidence # "l"
            /\ \A i \in 1..Len(run[r].batch_data) :
                  FireSignal(run[r].batch_data[i]) =
                      FireSignalOf(run[r].feed.rows, DISTRICTS[i])
            /\ \A i \in 1..Len(run[r].df) :
                  FireSignal(run[r].df[i]) =
                      FireSignalOf(run[r].feed.rows, DISTRICTS[i])
            /\ (run[r].pc = "done" /\ run[r].error = "none") =>
                  \A i \in 1..Len(run[r].df) : run[r].df[i] \in smog_metrics

\* a low-confidence detection inside the first district's catchment, and the
\* committed row of that district counts nothing
C14_Witness ==
    /\ FiresFetched("A")
    /\ Len(run["A"].feed.rows) = 1
    /\ run["A"].feed.rows[1].confidence = "l"
    /\ InCatchment(run["A"].feed.rows, DISTRICTS[1].lat, DISTRICTS[1].lon) = {1}
    /\ run["A"].pc = "done"
    /\ run["A"].error = "none"
    /\ run["A"].df[1] \in smog_metrics
    /\ run["A"].df[1].local_fire_count = 0
    /\ run["A"].df[1].provincial_fire_load = 0

RetainedFrp(r) ==
    SumFrpAt(1..Len(run[r].all_fires_df.rows), run[r].all_fires_df.rows)

\* C15: the provincial load of a cycle is the sum of the radiative power of
\* the detections the fire client retained (0 when there are none), and every
\* row of the cycle, as collected and as staged, carries exactly that value.
C15_ProvincialLoadBroadcast ==
    \A r \in Runs :
        FiresFetched(r) =>
            /\ run[r].provincial_load = RetainedFrp(r)
            /\ \A i \in 1..Len(run[r].batch_data) :
                  run[r].batch_data[i].provincial_fire_load = RetainedFrp(r)
            /\ \A i \in 1..Len(run[r].df) :
                  run[r].df[i].provincial_fire_load = RetainedFrp(r)

\* two retained detections of 7 and 3, one of them local to the first
\* district only: every stored row has load 10
C15_Witness ==
    /\ FiresFetched("A")
    /\ Len(run["A"].all_fires_df.rows) = 2
    /\ RetainedFrp("A") = 10
    /\ run["A"].pc = "done"
    /\ Cardinality(smog_metrics) = Len(DISTRICTS)
    /\ \A row \in smog_metrics : row.provincial_fire_load = 10
    /\ \E row \in smog_metrics : row.local_fire_frp = 7

DistrictRequests(r) == run[r].calls.ow + run[r].calls.om + run[r].calls.owm

\* C23: a cycle requests the fire feed once, for the macro bounding box; no
\* district provider is asked before that request has returned; and the
\* local count and intensity of every district's row come from the one frame
\* the request gave.
C23_FireFeedOncePerCycle ==
    \A r \in Runs :
        /\ run[r].calls.fire <= 1
        /\ run[r].calls.fire = 1 => run[r].bbox = Some(PUNJAB_MACRO_BBOX)
        /\ run[r].pc \in {"loop", "prepare", "stage", "merge", "done"} =>
              run[r].calls.fire = 1
        /\ DistrictRequests(r) > 0 =>
              /\ run[r].calls.fire = 1
              /\ run[r].all_fires_df = get_provincial_fires(run[r].feed)
        /\ \A i \in 1..Len(run[r].batch_data) :
              LET local == calculate_local_impact(DISTRICTS[i].lat,
                               DISTRICTS[i].lon, run[r].all_fires_df)
              IN  /\ run[r].batch_data[i].local_fire_count = local.count
                  /\ run[r].batch_data[i].local_fire_frp = local.frp

\* a cycle at its end: one fire request, all districts asked, and the two
\* retained detections counted for the districts in whose catchment they lie
C23_Witness ==
    /\ run["A"].pc = "done"
    /\ run["A"].calls.fire = 1
    /\ run["A"].calls.ow = Len(DISTRICTS)
    /\ Len(run["A"].all_fires_df.rows) = 2
    /\ \A i \in 1..Len(DISTRICTS) :
          run["A"].batch_data[i].local_fire_count =
              Cardinality(InCatchment(run["A"].all_fires_df.rows,
                                      DISTRICTS[i].lat, DISTRICTS[i].lon))
    /\ run["A"].batch_data[1].local_fire_count = 1

\* C25: a run that passed the configuration check eventually comes to its
\* end (merge committed, or database error logged) having attempted the
\* store, whatever the feed and the providers do.  Refuted: the feed request
\* has no timeout.
C25_Terminates ==
    (run["A"].pc = "start") ~> (run["A"].pc = "done" /\ run["A"].calls.db >= 1)

-----------------------------------------------------------------------------
(* Database errors                                                           *)

\* C16: a database error of the connection, of the staging write or of the
\* merge never escapes run_pipeline: the run is at its end, with the error
\* logged, and it has not crashed.
C16_DatabaseErrorCaught ==
    \A r \in Runs :
        /\ run[r].error # "none" => (run[r].pc = "done" /\ run[r].logged)
        /\ run[r].calls.db > 0 => run[r].pc # "crashed"

\* the merge failed after the staging write went through
C16_Witness ==
    /\ run["A"].pc = "done"
    /\ run["A"].error = "OperationalError"
    /\ run["A"].logged
    /\ run["A"].calls.db = 2
    /\ smog_staging = run["A"].df
    /\ smog_staging # <<>>

Range(seq) == {seq[i] : i \in 1..Len(seq)}

NonConflicting(table, batch) ==
    {row \in Range(batch) : ~HasKey(table, Key(row))}

\* C17 (runs one after the other): the permanent table changes only in the
\* step that ends a run's merge without error, and that step adds all rows of
\* the run's batch whose key the table did not hold, and nothing else; the
\* step in which a run meets a database error leaves the table as it was.
C17_NoPartialCommit ==
    [][ /\ smog_metrics' # smog_metrics =>
              \E r \in Runs :
                  /\ run[r].pc = "merge"
                  /\ run'[r].pc = "done"
                  /\ run'[r].error = "none"
                  /\ smog_metrics' =
                        smog_metrics \cup NonConflicting(smog_metrics, run[r].df)
        /\ \A r \in Runs :
              (run[r].error = "none" /\ run'[r].error # "none") =>
                  smog_metrics' = smog_metrics
      ]_vars

\* run B staged a batch with a row the table does not hold, then failed in
\* the merge: the table holds run A's rows and none of B's
C17_Witness ==
    /\ Committed("A")
    /\ run["B"].pc = "done"
    /\ run["B"].error = "OperationalError"
    /\ run["B"].calls.db = 2
    /\ smog_staging = run["B"].df
    /\ NonConflicting(smog_metrics, run["B"].df) # {}
    /\ smog_metrics = Range(run["A"].df)

-----------------------------------------------------------------------------
(* The permanent table over time                                             *)

\* C19 (two runs, interleaved in every way): a row of the permanent table is
\* still in it after every step, with every column as it was; a run that
\* collected other values for the row's key does not change it.
C19_RowsNeverChange ==
    [][\A t \in smog_metrics :
          /\ t \in smog_metrics'
          /\ \A u \in smog_metrics' : Key(u) = Key(t) => u = t]_vars

\* both runs merged batches with the key of district 1 and different
\* readings; the table holds run A's row, not run B's
C19_Witness ==
    /\ run["A"].pc = "done" /\ run["A"].error = "none"
    /\ run["B"].pc = "done" /\ run["B"].error = "none"
    /\ run["A"].calls.db = 2 /\ run["B"].calls.db = 2
    /\ Key(run["A"].df[1]) = Key(run["B"].df[1])
    /\ run["A"].df[1].pm2_5 # run["B"].df[1].pm2_5
    /\ run["A"].df[1] \in smog_metrics
    /\ run["B"].df[1] \notin smog_metrics

-----------------------------------------------------------------------------
(* The read side (SpecQuery)                                                 *)

\* C21: load_data(start, end) returns every row of the permanent table with
\* start <= timestamp <= end, each once, and no other row, the later
\* timestamp first.
C21_RangeQuery ==
    ld.called =>
        /\ {ld.df[i] : i \in 1..Len(ld.df)} =
              {t \in smog_metrics : ld.start <= t.timestamp /\ t.timestamp <= ld.end}
        /\ \A i \in 1..Len(ld.df), j \in 1..Len(ld.df) :
              /\ i < j => ld.df[i].timestamp >= ld.df[j].timestamp
              /\ i # j => ld.df[i] # ld.df[j]

\* rows on both bounds are returned, a later row is left out
C21_Witness ==
    /\ ld.called
    /\ ld.start < ld.end
    /\ Len(ld.df) >= 2
    /\ ld.df[1].timestamp = ld.end
    /\ ld.df[Len(ld.df)].timestamp = ld.start
    /\ \E t \in smog_metrics : t.timestamp > ld.end

\* C27 (two runs, interleaved in every way): the step in which a run's merge
\* commits adds to the permanent table exactly the rows of that run's own
\* batch whose key the table did not hold.  Refuted: the merge reads the
\* shared staging table, which the other run may have replaced.
C27_StagingIsolation ==
    [][\A r \in Runs :
          (run[r].pc = "merge" /\ run'[r].pc = "done" /\ run'[r].error = "none")
              => smog_metrics' =
                    smog_metrics \cup NonConflicting(smog_metrics, run[r].df)]_vars

\* C28: all rows of one cycle's batch have the same floored timestamp, so
\* a cycle writes into one hour of the store.  Refuted: each row is stamped
\* when its district is collected, and the loop can pass the full hour.
C28_OneHourPerCycle ==
    \A r \in Runs :
        \A i \in 1..Len(run[r].df), j \in 1..Len(run[r].df) :
            run[r].df[i].timestamp = run[r].df[j].timestamp

=============================================================================
